---- MODULE Spec2Model ----
(***************************************************************************)
(* brightness-ctl: the Controller (open / open_first / set_percentage /    *)
(* get_percentage), the do_main orchestration and the f64 <-> u64          *)
(* conversions they rest on, modelled from src/main.rs.                    *)
(*                                                                         *)
(* Percentages are Rust f64 values.  They are modelled bit-exactly: a      *)
(* finite double is sign * m * 2^e with a 53-bit mantissa m, and every     *)
(* arithmetic operation is the exact rational result rounded to nearest,   *)
(* ties to even.  Mantissas do not fit the model checker's integers, so    *)
(* they are kept as little-endian sequences of 15-bit limbs.               *)
(***************************************************************************)
EXTENDS Integers, Sequences, FiniteSets, TLC

----------------------------------------------------------------------------
(* Multi-precision naturals: <<>> is 0, limbs are little-endian, the top    *)
(* limb is never 0.                                                         *)

LimbBits == 15
Base == 32768

RECURSIVE BigNorm(_)
BigNorm(a) ==
  IF a = <<>> THEN a
  ELSE IF a[Len(a)] = 0 THEN BigNorm(SubSeq(a, 1, Len(a) - 1)) ELSE a

RECURSIVE BigFromInt(_)
BigFromInt(n) ==
  IF n = 0 THEN <<>> ELSE <<n % Base>> \o BigFromInt(n \div Base)

RECURSIVE BigToInt(_)
BigToInt(a) ==
  IF a = <<>> THEN 0 ELSE Head(a) + Base * BigToInt(Tail(a))

RECURSIVE BigAddC(_, _, _)
BigAddC(a, b, c) ==
  IF a = <<>> /\ b = <<>> THEN (IF c = 0 THEN <<>> ELSE <<c>>)
  ELSE LET x == IF a = <<>> THEN 0 ELSE Head(a)
           y == IF b = <<>> THEN 0 ELSE Head(b)
           t == x + y + c
       IN  <<t % Base>> \o BigAddC(IF a = <<>> THEN a ELSE Tail(a),
                                   IF b = <<>> THEN b ELSE Tail(b),
                                   t \div Base)

BigAdd(a, b) == BigAddC(a, b, 0)

\* a - b for a >= b, limb by limb with borrow c.
RECURSIVE BigSubC(_, _, _)
BigSubC(a, b, c) ==
  IF a = <<>> THEN <<>>
  ELSE LET y == IF b = <<>> THEN 0 ELSE Head(b)
           t == Head(a) - y - c
       IN  <<IF t < 0 THEN t + Base ELSE t>>
             \o BigSubC(Tail(a), IF b = <<>> THEN b ELSE Tail(b),
                        IF t < 0 THEN 1 ELSE 0)

BigSub(a, b) == BigNorm(BigSubC(a, b, 0))

RECURSIVE BigCmpAt(_, _, _)
BigCmpAt(a, b, i) ==
  IF i = 0 THEN 0
  ELSE IF a[i] < b[i] THEN -1
  ELSE IF a[i] > b[i] THEN 1
  ELSE BigCmpAt(a, b, i - 1)

\* -1, 0, 1 as a < b, a = b, a > b.
BigCmp(a, b) ==
  IF Len(a) < Len(b) THEN -1
  ELSE IF Len(a) > Len(b) THEN 1
  ELSE BigCmpAt(a, b, Len(a))

RECURSIVE BigMulSmallC(_, _, _)
BigMulSmallC(a, k, c) ==
  IF a = <<>> THEN (IF c = 0 THEN <<>> ELSE <<c>>)
  ELSE LET t == Head(a) * k + c
       IN  <<t % Base>> \o BigMulSmallC(Tail(a), k, t \div Base)

\* a * k for 0 <= k < Base.
BigMulSmall(a, k) == IF k = 0 THEN <<>> ELSE BigMulSmallC(a, k, 0)

RECURSIVE BigMulR(_, _)
BigMulR(a, b) ==
  IF b = <<>> THEN <<>>
  ELSE BigAdd(BigMulSmall(a, Head(b)), <<0>> \o BigMulR(a, Tail(b)))

BigMul(a, b) == IF a = <<>> \/ b = <<>> THEN <<>> ELSE BigNorm(BigMulR(a, b))

\* a * 2^n
BigShl(a, n) ==
  IF a = <<>> THEN a
  ELSE [i \in 1..(n \div LimbBits) |-> 0] \o BigMulSmall(a, 2 ^ (n % LimbBits))

\* Short division by 0 < k < Base: quotient limbs (not normalised) and remainder.
RECURSIVE BigDivSmall(_, _)
BigDivSmall(a, k) ==
  IF a = <<>> THEN [q |-> <<>>, r |-> 0]
  ELSE LET hi  == BigDivSmall(Tail(a), k)
           cur == hi.r * Base + Head(a)
       IN  [q |-> <<cur \div k>> \o hi.q, r |-> cur % k]

\* floor(a / 2^n)
BigShr(a, n) ==
  IF n \div LimbBits >= Len(a) THEN <<>>
  ELSE BigNorm(BigDivSmall(SubSeq(a, n \div LimbBits + 1, Len(a)),
                           2 ^ (n % LimbBits)).q)

RECURSIVE IntBitLen(_)
IntBitLen(n) == IF n = 0 THEN 0 ELSE 1 + IntBitLen(n \div 2)

BigBitLen(a) ==
  IF a = <<>> THEN 0 ELSE LimbBits * (Len(a) - 1) + IntBitLen(a[Len(a)])

\* bit i of a (bit 0 is the least significant).
BigBit(a, i) ==
  IF i \div LimbBits >= Len(a) THEN 0
  ELSE (a[i \div LimbBits + 1] \div (2 ^ (i % LimbBits))) % 2

\* The largest k in lo..(hi - 1) with d * k <= cur, given d * lo <= cur < d * hi.
RECURSIVE BigQuotDigit(_, _, _, _)
BigQuotDigit(cur, d, lo, hi) ==
  IF hi - lo <= 1 THEN lo
  ELSE LET mid == (lo + hi) \div 2
       IN  IF BigCmp(BigMulSmall(d, mid), cur) <= 0
           THEN BigQuotDigit(cur, d, mid, hi)
           ELSE BigQuotDigit(cur, d, lo, mid)

\* Schoolbook long division, one limb of n at a time from the top.
RECURSIVE BigDivLimbs(_, _)
BigDivLimbs(n, d) ==
  IF n = <<>> THEN [q |-> <<>>, r |-> <<>>]
  ELSE LET hi  == BigDivLimbs(Tail(n), d)
           cur == BigNorm(<<Head(n)>> \o hi.r)
           dig == BigQuotDigit(cur, d, 0, Base)
       IN  [q |-> <<dig>> \o hi.q, r |-> BigSub(cur, BigMulSmall(d, dig))]

\* [q, r] with n = q * d + r, 0 <= r < d, for d > 0.
BigDivMod(n, d) ==
  IF d = <<1>> THEN [q |-> n, r |-> <<>>]
  ELSE IF Len(d) = 1
       THEN LET x == BigDivSmall(n, d[1])
            IN  [q |-> BigNorm(x.q), r |-> BigFromInt(x.r)]
  ELSE LET x == BigDivLimbs(n, d) IN [q |-> BigNorm(x.q), r |-> x.r]

RECURSIVE IntTrailingZeros(_)
IntTrailingZeros(n) == IF n % 2 = 1 THEN 0 ELSE 1 + IntTrailingZeros(n \div 2)

\* The number of trailing zero bits of a > 0.
RECURSIVE BigTrailingZeros(_)
BigTrailingZeros(a) ==
  IF Head(a) = 0 THEN LimbBits + BigTrailingZeros(Tail(a))
  ELSE IntTrailingZeros(Head(a))

----------------------------------------------------------------------------
(* f64: [k, s, m, e].  k is "num", "inf" or "nan"; s is 1 for a negative    *)
(* sign; a non-zero number is m * 2^e with m of exactly MantBits bits, zero *)
(* is m = <<>>, e = 0.  The exponent is not range-checked: every value the  *)
(* model computes is far inside the normal range of a double.               *)

MantBits == 53

F64Zero(s) == [k |-> "num", s |-> s, m |-> <<>>, e |-> 0]
F64Inf(s)  == [k |-> "inf", s |-> s, m |-> <<>>, e |-> 0]
F64NaN     == [k |-> "nan", s |-> 0, m |-> <<>>, e |-> 0]

IsZero(x) == x.k = "num" /\ x.m = <<>>
SignXor(x, y) == (x.s + y.s) % 2

\* The double nearest to (-1)^s * (n / d0) * 2^e0, ties to even, in steps that
\* each hand what they computed to the next.
\*
\* A mantissa that rounding up carried out of MantBits bits is halved.
RoundPack(s, m1, e) ==
  IF BigBitLen(m1) > MantBits
  THEN [k |-> "num", s |-> s, m |-> BigShr(m1, 1), e |-> e + 1]
  ELSE [k |-> "num", s |-> s, m |-> m1, e |-> e]

\* m0 is the quotient's top MantBits bits, c compares the bits below them with
\* one half (-1, 0, 1), rem tells that the division left more below those.
RoundUp(s, m0, c, rem, e) ==
  RoundPack(s,
            IF c > 0 \/ (c = 0 /\ (rem \/ BigBit(m0, 0) = 1))
            THEN BigAdd(m0, <<1>>) ELSE m0,
            e)

RoundLow(s, q, l, m0, rem, e) ==
  RoundUp(s, m0, BigCmp(BigSub(q, BigShl(m0, l)), BigShl(<<1>>, l - 1)), rem, e)

\* q has MantBits + l bits, l being 2 or 3.
RoundQuot(s, q, l, rem, e) == RoundLow(s, q, l, BigShr(q, l), rem, e + l)

RoundDiv(s, dm, cut, e) ==
  RoundQuot(s, dm.q, BigBitLen(dm.q) - MantBits, cut \/ dm.r # <<>>, e)

\* n2 is n * 2^sh, rounded down when sh < 0.
RoundScaled(s, n, d, sh, n2, e) ==
  RoundDiv(s, BigDivMod(n2, d), sh < 0 /\ BigShl(n2, 0 - sh) # n, e - sh)

\* The quotient is taken to MantBits + 2 or + 3 bits.
RoundShift(s, n, d, sh, e) ==
  RoundScaled(s, n, d, sh, IF sh >= 0 THEN BigShl(n, sh) ELSE BigShr(n, 0 - sh), e)

RoundOdd(s, n, d, e) ==
  RoundShift(s, n, d, MantBits + 2 + BigBitLen(d) - BigBitLen(n), e)

\* The power of two in d0 goes to the exponent.
RoundTz(s, n, d0, tz, e0) == RoundOdd(s, n, BigShr(d0, tz), e0 - tz)

RoundRat(s, n, d0, e0) ==
  IF n = <<>> THEN F64Zero(s) ELSE RoundTz(s, n, d0, BigTrailingZeros(d0), e0)

\* `n as f64` for an unsigned integer n.
F64FromU64(n) == RoundRat(0, BigFromInt(n), <<1>>, 0)

\* The double a command-line VALUE of integer i parses to.
F64FromInt(i) ==
  RoundRat(IF i < 0 THEN 1 ELSE 0, BigFromInt(IF i < 0 THEN 0 - i ELSE i), <<1>>, 0)

F64Neg(x) == IF x.k = "nan" THEN x ELSE [x EXCEPT !.s = 1 - x.s]

F64Mul(x, y) ==
  IF x.k = "nan" \/ y.k = "nan" THEN F64NaN
  ELSE IF x.k = "inf" \/ y.k = "inf"
       THEN (IF IsZero(x) \/ IsZero(y) THEN F64NaN ELSE F64Inf(SignXor(x, y)))
  ELSE RoundRat(SignXor(x, y), BigMul(x.m, y.m), <<1>>, x.e + y.e)

F64Div(x, y) ==
  IF x.k = "nan" \/ y.k = "nan" THEN F64NaN
  ELSE IF x.k = "inf"
       THEN (IF y.k = "inf" THEN F64NaN ELSE F64Inf(SignXor(x, y)))
  ELSE IF y.k = "inf" THEN F64Zero(SignXor(x, y))
  ELSE IF IsZero(y)
       THEN (IF IsZero(x) THEN F64NaN ELSE F64Inf(SignXor(x, y)))
  ELSE RoundRat(SignXor(x, y), x.m, y.m, x.e - y.e)

\* a and b are the magnitudes of x and y on the common exponent e, c compares
\* them.
F64AddAligned(x, y, e, a, b, c) ==
  IF x.s # y.s /\ c = 0 THEN F64Zero(0)
  ELSE RoundRat(IF x.s = y.s \/ c > 0 THEN x.s ELSE y.s,
                IF x.s = y.s THEN BigAdd(a, b)
                ELSE IF c > 0 THEN BigSub(a, b) ELSE BigSub(b, a),
                <<1>>, e)

F64AddAt(x, y, e, a, b) == F64AddAligned(x, y, e, a, b, BigCmp(a, b))

F64AddOn(x, y, e) == F64AddAt(x, y, e, BigShl(x.m, x.e - e), BigShl(y.m, y.e - e))

F64Add(x, y) ==
  IF x.k = "nan" \/ y.k = "nan" THEN F64NaN
  ELSE IF x.k = "inf"
       THEN (IF y.k = "inf" /\ y.s # x.s THEN F64NaN ELSE x)
  ELSE IF y.k = "inf" THEN y
  ELSE IF IsZero(x) THEN (IF IsZero(y) THEN F64Zero(x.s * y.s) ELSE y)
  ELSE IF IsZero(y) THEN x
  ELSE F64AddOn(x, y, IF x.e < y.e THEN x.e ELSE y.e)

F64Sub(x, y) == F64Add(x, F64Neg(y))

\* The magnitude of a finite x rounded to an integer: half away from zero
\* (f64::round) or half to even (the `{:.0}` formatter).
RoundMag(x, halfEven) ==
  IF x.e >= 0 THEN BigShl(x.m, x.e)
  ELSE LET ip  == BigShr(x.m, 0 - x.e)
           low == BigSub(x.m, BigShl(ip, 0 - x.e))
           c   == BigCmp(low, BigShl(<<1>>, (0 - x.e) - 1))
           up  == c > 0 \/ (c = 0 /\ (~halfEven \/ BigBit(ip, 0) = 1))
       IN  IF up THEN BigAdd(ip, <<1>>) ELSE ip

\* f64::round
F64Round(x) ==
  IF x.k # "num" \/ x.e >= 0 THEN x
  ELSE RoundRat(x.s, RoundMag(x, FALSE), <<1>>, 0)

U64Max == <<Base - 1, Base - 1, Base - 1, Base - 1, 15>>

\* `x as u64`: truncating, saturating, NaN to 0.  The result is multi-precision.
F64AsU64(x) ==
  IF x.k = "nan" \/ x.s = 1 THEN <<>>
  ELSE IF x.k = "inf" THEN U64Max
  ELSE LET v == IF x.e >= 0 THEN BigShl(x.m, x.e) ELSE BigShr(x.m, 0 - x.e)
       IN  IF BigCmp(v, U64Max) > 0 THEN U64Max ELSE v

\* `x as i32`: truncating, saturating, NaN to 0.
F64AsI32(x) ==
  IF x.k = "nan" THEN 0
  ELSE IF x.k = "inf" THEN (IF x.s = 1 THEN 0 - 2147483647 - 1 ELSE 2147483647)
  ELSE LET v   == IF x.e >= 0 THEN BigShl(x.m, x.e) ELSE BigShr(x.m, 0 - x.e)
           big == BigCmp(v, BigFromInt(2147483647)) > 0
       IN  IF x.s = 1 THEN (IF big THEN 0 - 2147483647 - 1 ELSE 0 - BigToInt(v))
           ELSE (IF big THEN 2147483647 ELSE BigToInt(v))

----------------------------------------------------------------------------
(* Text: a string is a sequence of one-character strings.                   *)

DigitChars == <<"0", "1", "2", "3", "4", "5", "6", "7", "8", "9">>
Whitespace == {" ", "\n", "\t"}
\* A byte that is not valid UTF-8 on its own.
BadByte == "\\xff"

IsDigit(c) == \E i \in 1..10 : DigitChars[i] = c
DigitVal(c) == (CHOOSE i \in 1..10 : DigitChars[i] = c) - 1

\* u64::to_string
RECURSIVE to_string(_)
to_string(n) ==
  IF n < 10 THEN <<DigitChars[n + 1]>>
  ELSE to_string(n \div 10) \o <<DigitChars[(n % 10) + 1]>>

\* The decimal digits of a multi-precision natural.
RECURSIVE BigToDec(_)
BigToDec(a) ==
  LET x == BigDivSmall(a, 10)
      q == BigNorm(x.q)
  IN  IF q = <<>> THEN <<DigitChars[x.r + 1]>>
      ELSE BigToDec(q) \o <<DigitChars[x.r + 1]>>

\* str::trim
RECURSIVE trim(_)
trim(s) ==
  IF s = <<>> THEN s
  ELSE IF Head(s) \in Whitespace THEN trim(Tail(s))
  ELSE IF s[Len(s)] \in Whitespace THEN trim(SubSeq(s, 1, Len(s) - 1))
  ELSE s

RECURSIVE DigitsValue(_)
DigitsValue(s) ==
  IF s = <<>> THEN 0 ELSE DigitsValue(SubSeq(s, 1, Len(s) - 1)) * 10 + DigitVal(s[Len(s)])

\* str::parse::<u64>: an optional "+", then one or more digits.  The texts of
\* the model have fewer than 10 digits, so the value never overflows a u64.
parse(s) ==
  LET d == IF s # <<>> /\ Head(s) = "+" THEN Tail(s) ELSE s
  IN  IF d # <<>> /\ \A i \in 1..Len(d) : IsDigit(d[i])
      THEN [ok |-> TRUE, v |-> DigitsValue(d)]
      ELSE [ok |-> FALSE, v |-> 0]

\* format!("{x:.0}"): the exact value rounded to an integer, ties to even.
Fmt0(x) ==
  IF x.k = "nan" THEN <<"N", "a", "N">>
  ELSE (IF x.s = 1 THEN <<"-">> ELSE <<>>)
       \o (IF x.k = "inf" THEN <<"i", "n", "f">> ELSE BigToDec(RoundMag(x, TRUE)))

----------------------------------------------------------------------------
(* The pseudo-filesystem.  A path is a sequence of components.  A file is   *)
(* its text, NoFile when it cannot be opened, or IoErr when it opens but    *)
(* cannot be read.                                                          *)

BACKLIGHT_CONTROLLER_DIR == "/sys/class/backlight"

NoFile == <<"ENOENT">>
IoErr  == <<"EIO">>
\* A directory entry whose read fails during iteration.
EntryErr == "<entry error>"

Devices == {"fake0", "fake1"}
DevPath(name) == <<BACKLIGHT_CONTROLLER_DIR, name>>
join(path, file) == path \o <<file>>
file_name(path) == path[Len(path)]

FileAt(files, path) == IF path \in DOMAIN files THEN files[path] ELSE NoFile

NoErr == [msg |-> "", path |-> <<>>]
Err(msg, path) == [msg |-> msg, path |-> path]

NoCtl == [live |-> FALSE, max |-> 0, value |-> 0, file |-> [pos |-> 0], path |-> <<>>]

\* fn read_u64: read_to_end, from_utf8, trim, parse.
read_u64(path, text) ==
  IF text = IoErr THEN [ok |-> FALSE, v |-> 0, err |-> Err("Failed to read from", path)]
  ELSE IF \E i \in 1..Len(text) : text[i] = BadByte
       THEN [ok |-> FALSE, v |-> 0, err |-> Err("Invalid UTF-8 in", path)]
  ELSE LET r == parse(trim(text))
       IN  IF r.ok THEN [ok |-> TRUE, v |-> r.v, err |-> NoErr]
           ELSE [ok |-> FALSE, v |-> 0, err |-> Err("Failed to parse", path)]

\* fn open_u64: File::open, then read_u64.
open_u64(files, path) ==
  IF FileAt(files, path) = NoFile
  THEN [ok |-> FALSE, v |-> 0, err |-> Err("Failed to open", path)]
  ELSE read_u64(path, FileAt(files, path))

\* open with max_brightness read before the brightness text is parsed.
open_max_first(files, path) ==
  LET path_max        == join(path, "max_brightness")
      path_brightness == join(path, "brightness")
      text            == FileAt(files, path_brightness)
      value           == read_u64(path_brightness, text)
      max             == open_u64(files, path_max)
  IN  IF text = NoFile
      THEN [ok |-> FALSE, ctl |-> NoCtl,
            err |-> Err("Failed to open for reading and writing", path_brightness)]
      ELSE IF ~max.ok THEN [ok |-> FALSE, ctl |-> NoCtl, err |-> max.err]
      ELSE IF ~value.ok THEN [ok |-> FALSE, ctl |-> NoCtl, err |-> value.err]
      ELSE [ok |-> TRUE, err |-> NoErr,
            ctl |-> [live |-> TRUE, max |-> max.v, value |-> value.v,
                     file |-> [pos |-> Len(text)], path |-> path_brightness]]

\* Controller::open.  The handle has read the whole brightness entry, so its
\* offset is the length of what it read.
open(files, path) ==
  LET path_max        == join(path, "max_brightness")
      path_brightness == join(path, "brightness")
      text            == FileAt(files, path_brightness)
      value           == read_u64(path_brightness, text)
      max             == open_u64(files, path_max)
  IN  IF text = NoFile
      THEN [ok |-> FALSE, ctl |-> NoCtl,
            err |-> Err("Failed to open for reading and writing", path_brightness)]
      ELSE IF ~value.ok THEN [ok |-> FALSE, ctl |-> NoCtl, err |-> value.err]
      ELSE IF ~max.ok THEN [ok |-> FALSE, ctl |-> NoCtl, err |-> max.err]
      ELSE [ok |-> TRUE, err |-> NoErr,
            ctl |-> [live |-> TRUE, max |-> max.v, value |-> value.v,
                     file |-> [pos |-> Len(text)], path |-> path_brightness]]

\* Controller::open_by_name
open_by_name(files, name) == open(files, DevPath(name))

\* Controller::list: read_dir, entries that fail to read are dropped.
RECURSIVE EntryPaths(_)
EntryPaths(dir) ==
  IF dir = <<>> THEN <<>>
  ELSE (IF Head(dir) = EntryErr THEN <<>> ELSE <<DevPath(Head(dir))>>)
       \o EntryPaths(Tail(dir))

list(fs) ==
  IF ~fs.readable
  THEN [ok |-> FALSE, paths |-> <<>>,
        err |-> Err("Failed to open directory", <<BACKLIGHT_CONTROLLER_DIR>>)]
  ELSE [ok |-> TRUE, paths |-> EntryPaths(fs.dir), err |-> NoErr]

\* The loop without its early return: every path is opened and the last one
\* that opens wins.
RECURSIVE last_working(_, _, _, _)
last_working(files, paths, i, tried) ==
  IF i > Len(paths)
  THEN [ok |-> FALSE, ctl |-> NoCtl, tried |-> tried,
        err |-> Err("Failed to find any working congroller", <<>>)]
  ELSE LET x    == open(files, paths[i])
           rest == last_working(files, paths, i + 1, Append(tried, paths[i]))
       IN  IF rest.ok \/ ~x.ok THEN rest
           ELSE [ok |-> TRUE, ctl |-> x.ctl, tried |-> rest.tried, err |-> NoErr]

\* The loop of Controller::open_first over paths[i..]; tried are the paths
\* open was called on.
RECURSIVE first_working(_, _, _, _)
first_working(files, paths, i, tried) ==
  IF i > Len(paths)
  THEN [ok |-> FALSE, ctl |-> NoCtl, tried |-> tried,
        err |-> Err("Failed to find any working congroller", <<>>)]
  ELSE LET x == open(files, paths[i])
       IN  IF x.ok
           THEN [ok |-> TRUE, ctl |-> x.ctl, tried |-> Append(tried, paths[i]),
                 err |-> NoErr]
           ELSE first_working(files, paths, i + 1, Append(tried, paths[i]))

\* Controller::open_first
open_first(fs) ==
  LET l == list(fs)
  IN  IF ~l.ok THEN [ok |-> FALSE, ctl |-> NoCtl, tried |-> <<>>, err |-> l.err]
      ELSE first_working(fs.files, l.paths, 1, <<>>)

\* get_percentage without the scaling to a percentage.
get_fraction(ctl) == F64Div(F64FromU64(ctl.value), F64FromU64(ctl.max))

\* Controller::get_percentage
get_percentage(ctl) ==
  F64Mul(F64Div(F64FromU64(ctl.value), F64FromU64(ctl.max)), F64FromU64(100))

\* No clamping at all.
unclamped(raw, max) == BigToInt(raw)

\* u64::clamp(0, max) of a multi-precision raw value.
clamp(raw, max) ==
  IF BigCmp(raw, BigFromInt(max)) > 0 THEN max ELSE BigToInt(raw)

\* The raw value set_percentage computes for a target percentage.
raw_of(value, max) ==
  clamp(F64AsU64(F64Round(F64Mul(F64Div(value, F64FromU64(100)), F64FromU64(max)))),
        max)

\* write at the handle's offset: the bytes replace what is there and extend
\* the text past its end.
write_at(text, pos, bytes) ==
  SubSeq(text, 1, pos) \o bytes \o SubSeq(text, pos + Len(bytes) + 1, Len(text))

\* self.file.write_all(digits): done bytes reach the file at the handle's
\* offset, and the call fails unless they are all of them.
write_all(files, ctl, digits, done) ==
  [ok    |-> done = Len(digits),
   err   |-> IF done = Len(digits) THEN NoErr ELSE Err("Failed to write to", ctl.path),
   raw   |-> ctl.value,
   pos   |-> ctl.file.pos,
   bytes |-> SubSeq(digits, 1, done),
   ctl   |-> [ctl EXCEPT !.file.pos = ctl.file.pos + done],
   files |-> [files EXCEPT ![ctl.path] =
                write_at(FileAt(files, ctl.path), ctl.file.pos, SubSeq(digits, 1, done))]]

\* self.value = raw, then the write of raw.to_string().
store(files, ctl, raw, n) ==
  write_all(files, [ctl EXCEPT !.value = raw], to_string(raw),
            IF n < Len(to_string(raw)) THEN n ELSE Len(to_string(raw)))

\* Controller::set_percentage.  n is how many bytes write_all put down before
\* it returned: all of them on success, fewer when a write call failed.
set_percentage(files, ctl, value, n) == store(files, ctl, raw_of(value, ctl.max), n)

----------------------------------------------------------------------------
(* State.                                                                   *)
(*   fs    the device root: whether read_dir succeeds, the entries in the   *)
(*         order the listing yields them, and the text of every file        *)
(*   ctl   the live Controller of a caller that uses the Controller         *)
(*         directly (NoCtl when it has none)                                *)
(*   last  what the most recent Controller call did                         *)
(*   run   what the most recent run of do_main did                          *)

VARIABLES fs, ctl, last, run
vars == <<fs, ctl, last, run>>

\* Bounds of the model: the calls made on one Controller, and the runs of the
\* program on one device root.
MaxCalls == 2
MaxRuns == 1

Str3(a, b, c) == <<a, b, c>>

\* (brightness, max_brightness) texts of a device directory.
DeviceTexts ==
  { <<Str3("1", "2", "8"), Str3("2", "5", "5")>>,
    <<<<"7", "\n">>, Str3("2", "5", "\n")>>,
    <<Str3("3", "0", "0"), Str3("2", "5", "5")>>,
    <<<<"5">>, <<"0">>>>,
    <<NoFile, Str3("2", "5", "5")>>,
    <<NoFile, <<"x">>>>,
    <<<<"x">>, Str3("2", "5", "5")>>,
    <<<<"x">>, NoFile>>,
    <<<<BadByte>>, Str3("2", "5", "5")>>,
    <<IoErr, Str3("2", "5", "5")>>,
    <<Str3("1", "2", "8"), NoFile>>,
    <<Str3("1", "2", "8"), <<"x">>>>,
    <<Str3("1", "2", "8"), <<>>>> }

\* The second device is either a working one or a broken one.
OtherTexts == { <<Str3("3", "0", "\n"), Str3("1", "0", "0")>>, <<NoFile, NoFile>> }

Listings ==
  { <<>>, <<"fake0">>, <<"fake0", "fake1">>, <<"fake1", "fake0">>,
    <<EntryErr, "fake0">> }

Listed(dir, name) == \E i \in 1..Len(dir) : dir[i] = name

FilePaths ==
  { join(DevPath(d), f) : d \in Devices, f \in {"brightness", "max_brightness"} }

\* The files of a root whose directories are those of dir.
FilesOf(dir, t0, t1) ==
  [p \in FilePaths |->
     LET t == IF p[2] = "fake0" THEN t0 ELSE t1
     IN  IF ~Listed(dir, p[2]) THEN NoFile
         ELSE IF p[3] = "brightness" THEN t[1] ELSE t[2]]

NoLast ==
  [op |-> "none", ok |-> TRUE, err |-> NoErr, tried |-> <<>>, target |-> 0,
   raw |-> 0, pos |-> 0, bytes |-> <<>>, prev |-> NoCtl, calls |-> 0]


\* --controller absent.
NoName == ""

NoNotif == [shown |-> "none", summary |-> <<>>, hint |-> 0]

Outcome(ok, err, files, stdout) ==
  [ok |-> ok, err |-> err, files |-> files, stdout |-> stdout, notif |-> NoNotif,
   opened |-> NoCtl, ctl |-> NoCtl, raw |-> 0, bytes |-> <<>>, pos |-> 0]

NoRun ==
  [command |-> "none", value |-> 0, controller |-> NoName, n |-> 0, exit |-> 0,
   out |-> Outcome(TRUE, NoErr, <<>>, <<>>), count |-> 0]

\* Any device root, nothing opened yet.
Init ==
  /\ \E dir \in Listings, t0 \in DeviceTexts, t1 \in OtherTexts, r \in BOOLEAN :
       fs = [readable |-> r, dir |-> dir, files |-> FilesOf(dir, t0, t1)]
  /\ ctl = NoCtl
  /\ last = NoLast
  /\ run = NoRun

\* A caller opens a controller by name; a failed open leaves it without one.
OpenByName(name) ==
  LET x == open_by_name(fs.files, name)
  IN  /\ ctl' = x.ctl
      /\ last' = [NoLast EXCEPT !.op = "open_by_name", !.ok = x.ok, !.err = x.err,
                                !.tried = <<DevPath(name)>>]
      /\ UNCHANGED <<fs, run>>

\* A caller opens the first working controller.
OpenFirst ==
  LET x == open_first(fs)
  IN  /\ ctl' = x.ctl
      /\ last' = [NoLast EXCEPT !.op = "open_first", !.ok = x.ok, !.err = x.err,
                                !.tried = x.tried]
      /\ UNCHANGED <<fs, run>>

NextOpen ==
  \/ \E name \in Devices : OpenByName(name)
  \/ OpenFirst

\* Opening controllers on any device root.
SpecOpen == Init /\ [][NextOpen]_vars

----------------------------------------------------------------------------
(* A caller that holds the Controller open returned for the only device of  *)
(* the root and calls set_percentage on it.                                 *)

InitHeld ==
  /\ \E t0 \in DeviceTexts :
       /\ fs = [readable |-> TRUE, dir |-> <<"fake0">>,
                files |-> FilesOf(<<"fake0">>, t0, <<NoFile, NoFile>>)]
       /\ open_by_name(fs.files, "fake0").ok
       /\ ctl = open_by_name(fs.files, "fake0").ctl
  /\ last = [NoLast EXCEPT !.op = "open_by_name", !.tried = <<DevPath("fake0")>>]
  /\ run = NoRun

\* Target percentages a caller passes, and the number of bytes a write_all
\* may get through (any n >= the number of digits is a complete write).
Targets == {-10, 0, 58, 100, 150}
WriteOutcomes == {0, 1, 20}

\* What a set_percentage call that returned x leaves behind.
Called(op, target, x) ==
  /\ ctl' = x.ctl
  /\ fs' = [fs EXCEPT !.files = x.files]
  /\ last' = [NoLast EXCEPT !.op = op, !.ok = x.ok, !.err = x.err,
                            !.target = target, !.raw = x.raw, !.pos = x.pos,
                            !.bytes = x.bytes, !.prev = ctl,
                            !.calls = last.calls + 1]
  /\ UNCHANGED run

\* The effect of one set_percentage call on the live controller.
Set(op, target, value, n) ==
  /\ last.calls < MaxCalls
  /\ Called(op, target, set_percentage(fs.files, ctl, value, n))

\* The caller calls set_percentage(p).
SetPercentage ==
  /\ ctl.live
  /\ \E p \in Targets, n \in WriteOutcomes : Set("set_percentage", p, F64FromInt(p), n)

\* The caller calls set_percentage(get_percentage()).
RoundTrip ==
  /\ ctl.live
  /\ \E n \in WriteOutcomes : Set("round_trip", 0, get_percentage(ctl), n)

Next ==
  \/ SetPercentage
  \/ RoundTrip

Spec == InitHeld /\ [][Next]_vars

----------------------------------------------------------------------------
(* The command line: one run of do_main per invocation.                     *)

\* fn show_notification: the summary shows the percentage with `{:.0}`, the
\* hint is `percentage.round() as i32`; whether the notification daemon shows
\* it is only logged.
show_notification(percentage, shown) ==
  [shown   |-> IF shown THEN "shown" ELSE "failed",
   summary |-> Fmt0(percentage) \o <<"%">>,
   hint    |-> F64AsI32(F64Round(percentage))]

\* The match with the arms of up and down exchanged.
resolve_swapped(command, brightness, value) ==
  CASE command = "up"   -> F64Sub(brightness, value)
    [] command = "down" -> F64Add(brightness, value)
    [] command = "set"  -> value

\* The match on options.command that turns the current percentage into the
\* target.
resolve(command, brightness, value) ==
  CASE command = "up"   -> F64Add(brightness, value)
    [] command = "down" -> F64Sub(brightness, value)
    [] command = "set"  -> value

RECURSIVE names(_)
names(paths) ==
  IF paths = <<>> THEN <<>> ELSE <<file_name(Head(paths))>> \o names(Tail(paths))

\* do_main from line 131 on: w is what set_percentage returned.
notify(o, w, shown) ==
  [Outcome(w.ok, w.err, w.files, <<>>)
     EXCEPT !.opened = o.ctl, !.ctl = w.ctl, !.raw = w.raw, !.bytes = w.bytes,
            !.pos = w.pos,
            !.notif = IF w.ok THEN show_notification(get_percentage(w.ctl), shown)
                      ELSE NoNotif]

\* do_main from line 118 on: o is what the open returned.
with_controller(root, options, n, shown, o) ==
  IF ~o.ok THEN Outcome(FALSE, o.err, root.files, <<>>)
  ELSE IF options.command = "get"
  THEN [Outcome(TRUE, NoErr, root.files, <<Fmt0(get_percentage(o.ctl))>>)
          EXCEPT !.opened = o.ctl, !.ctl = o.ctl]
  ELSE notify(o,
              set_percentage(root.files, o.ctl,
                             resolve(options.command, get_percentage(o.ctl),
                                     F64FromInt(options.value)),
                             n),
              shown)

\* The listing of list-controllers.
print_names(root, l) ==
  IF ~l.ok THEN Outcome(FALSE, l.err, root.files, <<>>)
  ELSE Outcome(TRUE, NoErr, root.files, names(l.paths))

\* fn do_main.  n is the number of bytes write_all gets through, shown whether
\* the notification can be displayed.
do_main(root, options, n, shown) ==
  IF options.command = "list-controllers" THEN print_names(root, list(root))
  ELSE with_controller(root, options, n, shown,
                       IF options.controller # NoName
                       THEN open_by_name(root.files, options.controller)
                       ELSE open_first(root))

\* main ignoring the result of do_main.
main_ignoring(result) == 0

\* fn main: the exit status of the process.
main(result) == IF result.ok THEN 0 ELSE 1

\* The device roots the program is run on: [readable, dir, texts of fake0,
\* texts of fake1].
Working == <<Str3("1", "2", "8"), Str3("2", "5", "5")>>
Broken  == <<NoFile, Str3("2", "5", "5")>>
Other   == <<Str3("3", "0", "\n"), Str3("1", "0", "0")>>
Absent  == <<NoFile, NoFile>>

MainRoots ==
  { <<TRUE, <<"fake0">>, Working, Absent>>,
    <<TRUE, <<"fake0", "fake1">>, Working, Other>>,
    <<TRUE, <<"fake1", "fake0">>, Working, Other>>,
    <<TRUE, <<"fake0", "fake1">>, Broken, Other>>,
    <<TRUE, <<"fake1", "fake0">>, Working, Broken>>,
    <<TRUE, <<EntryErr, "fake0">>, Working, Absent>>,
    <<TRUE, <<"fake0">>, Broken, Absent>>,
    <<TRUE, <<"fake0">>, <<<<"5">>, <<"0">>>>, Absent>>,
    <<TRUE, <<>>, Absent, Absent>>,
    <<FALSE, <<"fake0">>, Working, Absent>> }

InitMain ==
  /\ \E r \in MainRoots :
       fs = [readable |-> r[1], dir |-> r[2], files |-> FilesOf(r[2], r[3], r[4])]
  /\ ctl = NoCtl
  /\ last = NoLast
  /\ run = NoRun

ControllerOptions == {NoName, "fake0"}
UpValues == {0, 10}
DownValues == {10}
SetValues == {-10, 60, 150}

\* How a write and the notification after it can go: the bytes write_all gets
\* through, and whether the notification is displayed.
WriteRuns == {<<0, FALSE>>, <<1, FALSE>>, <<20, FALSE>>, <<20, TRUE>>}

\* What a run of the program whose do_main returned r leaves behind.
Ran(command, value, controller, n, r) ==
  /\ fs' = [fs EXCEPT !.files = r.files]
  /\ run' = [command |-> command, value |-> value, controller |-> controller,
             n |-> n, exit |-> main(r), out |-> [r EXCEPT !.files = <<>>],
             count |-> run.count + 1]
  /\ UNCHANGED <<ctl, last>>

\* One invocation of the program.
Invoke(command, value, controller, n, shown) ==
  /\ run.count < MaxRuns
  /\ Ran(command, value, controller, n,
         do_main(fs, [command |-> command, value |-> value,
                      controller |-> controller], n, shown))

Up ==
  \E v \in UpValues, c \in ControllerOptions, w \in WriteRuns :
    Invoke("up", v, c, w[1], w[2])

Down ==
  \E v \in DownValues, c \in ControllerOptions, w \in WriteRuns :
    Invoke("down", v, c, w[1], w[2])

SetTo ==
  \E v \in SetValues, c \in ControllerOptions, w \in WriteRuns :
    Invoke("set", v, c, w[1], w[2])

Get == \E c \in ControllerOptions : Invoke("get", 0, c, 0, FALSE)

ListControllers == \E c \in ControllerOptions : Invoke("list-controllers", 0, c, 0, FALSE)

NextMain == Up \/ Down \/ SetTo \/ Get \/ ListControllers

\* Invocations of the program on any device root.
SpecMain == InitMain /\ [][NextMain]_vars

----------------------------------------------------------------------------
(* Properties.                                                              *)

\* The paths the listing yields, in order.
Yielded == EntryPaths(fs.dir)
Opens(path) == open(fs.files, path).ok

\* A text that is decimal digits with nothing but whitespace around them.
IsNumber(t) ==
  \E i \in 1..Len(t), j \in 1..Len(t) :
    /\ i <= j
    /\ \A k \in 1..Len(t) :
         IF i <= k /\ k <= j THEN IsDigit(t[k]) ELSE t[k] \in Whitespace
NumberOf(t) == DigitsValue(SelectSeq(t, IsDigit))

Abs(i) == IF i < 0 THEN 0 - i ELSE i
ClampInt(i, lo, hi) == IF i < lo THEN lo ELSE IF i > hi THEN hi ELSE i

\* |x - c| <= bound / max for a finite x >= 0 and integers c >= 0, bound, max.
Within(x, c, bound, max) ==
  LET sc == IF x.e >= 0 THEN 0 ELSE 0 - x.e
      a  == IF x.e >= 0 THEN BigShl(x.m, x.e) ELSE x.m
      b  == BigShl(BigFromInt(c), sc)
      d  == IF BigCmp(a, b) >= 0 THEN BigSub(a, b) ELSE BigSub(b, a)
  IN  BigCmp(BigMul(d, BigFromInt(max)), BigShl(BigFromInt(bound), sc)) <= 0

\* C1: the cached raw value of every live Controller is within 0..max, right
\* after open and after every set_percentage (stated for max >= 1; max = 0 is
\* C6).
C1_ValueWithinMax ==
  (ctl.live /\ ctl.max >= 1) => (0 <= ctl.value /\ ctl.value <= ctl.max)

\* C2: on a Controller with max >= 1, set_percentage(p) fails only when the
\* write fails, never because of p; it leaves the cached value in 0..max and
\* nearest to p / 100 * max; p >= 100 leaves max and 100 percent, p <= 0 leaves
\* 0 and 0 percent.
C2_SetClamps ==
  (last.op = "set_percentage" /\ ctl.max >= 1) =>
    /\ ~last.ok => (last.err.msg = "Failed to write to" /\ last.bytes # to_string(last.raw))
    /\ ctl.value = last.raw
    /\ 0 <= ctl.value /\ ctl.value <= ctl.max
    /\ Abs(ctl.value * 100 - ClampInt(last.target, 0, 100) * ctl.max) <= 50
    /\ last.target >= 100 =>
         (ctl.value = ctl.max /\ get_percentage(ctl) = F64FromU64(100))
    /\ last.target <= 0 =>
         (ctl.value = 0 /\ get_percentage(ctl) = F64Zero(0))

C2_Witness ==
  /\ last.op = "set_percentage" /\ last.target = 150 /\ last.ok
  /\ ctl.max = 255 /\ ctl.value = 255

\* C3: a successful set_percentage writes the digits of the clamped raw value
\* from offset zero of the handle, and the entry then denotes that value.
C3_WriteFromOffsetZero ==
  (last.op \in {"set_percentage", "round_trip"} /\ last.ok) =>
    /\ last.pos = 0
    /\ last.bytes = to_string(last.raw)
    /\ IsNumber(fs.files[ctl.path])
    /\ NumberOf(fs.files[ctl.path]) = last.raw

\* C4: a run that changes the brightness either writes the whole clamped value
\* and succeeds, or fails and leaves every device entry as it was.
C4_AllOrNothing ==
  [][run'.count > run.count =>
       IF run'.exit = 0
       THEN run'.command \in {"up", "down", "set"} =>
              run'.out.bytes = to_string(run'.out.raw)
       ELSE fs' = fs]_vars

\* C5: open_first calls open on the yielded paths in order and stops at the
\* first that opens, whose Controller it returns; it reports that no controller
\* works exactly when the listing succeeds and no entry opens.
C5_OpenFirstInOrder ==
  last.op = "open_first" =>
    /\ Len(last.tried) <= Len(Yielded)
    /\ \A i \in 1..Len(last.tried) : last.tried[i] = Yielded[i]
    /\ \A i \in 1..(Len(last.tried) - 1) : ~Opens(last.tried[i])
    /\ last.ok =>
         /\ last.tried # <<>>
         /\ Opens(last.tried[Len(last.tried)])
         /\ ctl = open(fs.files, last.tried[Len(last.tried)]).ctl
    /\ last.ok <=> (fs.readable /\ \E i \in 1..Len(Yielded) : Opens(Yielded[i]))
    /\ (last.err.msg = "Failed to find any working congroller")
         <=> (fs.readable /\ \A i \in 1..Len(Yielded) : ~Opens(Yielded[i]))
    /\ ~fs.readable => (last.tried = <<>> /\ last.err.msg = "Failed to open directory")
    /\ ~last.ok => ~ctl.live

\* The broken device is listed first and the working one is still found.
C5_Witness ==
  /\ last.op = "open_first" /\ last.ok
  /\ Len(last.tried) = 2
  /\ ctl.path = join(last.tried[2], "brightness")

\* C6: no Controller with max = 0 is ever constructed, so get_percentage is
\* always a finite number.
C6_MaxPositive == ctl.live => (ctl.max >= 1 /\ get_percentage(ctl).k = "num")

\* C7: open constructs a Controller exactly when brightness opens and is a
\* number and max_brightness opens and is a number; a missing brightness is
\* reported as not openable for reading and writing, an unreadable or
\* non-numeric brightness as an invalid brightness, and only then a missing or
\* non-numeric max_brightness as an invalid max_brightness.
C7_OpenChecks ==
  last.op = "open_by_name" =>
    LET pb == join(last.tried[1], "brightness")
        pm == join(last.tried[1], "max_brightness")
        b  == fs.files[pb]
        m  == fs.files[pm]
    IN  /\ last.ok <=> (b # NoFile /\ IsNumber(b) /\ m # NoFile /\ IsNumber(m))
        /\ last.ok <=> ctl.live
        /\ last.ok => /\ ctl.value = NumberOf(b)
                      /\ ctl.max = NumberOf(m)
                      /\ ctl.path = pb
                      /\ last.err = NoErr
        /\ b = NoFile =>
             last.err = Err("Failed to open for reading and writing", pb)
        /\ (b # NoFile /\ ~IsNumber(b)) =>
             /\ last.err.path = pb
             /\ last.err.msg \in {"Failed to read from", "Invalid UTF-8 in", "Failed to parse"}
        /\ (b # NoFile /\ IsNumber(b) /\ m = NoFile) =>
             last.err = Err("Failed to open", pm)
        /\ (b # NoFile /\ IsNumber(b) /\ m # NoFile /\ ~IsNumber(m)) =>
             /\ last.err.path = pm
             /\ last.err.msg \in {"Failed to read from", "Invalid UTF-8 in", "Failed to parse"}

\* brightness is fine and max_brightness is not a number.
C7_Witness ==
  /\ last.op = "open_by_name" /\ ~last.ok
  /\ last.err = Err("Failed to parse", join(last.tried[1], "max_brightness"))

\* Whether the core steps of a run with these options succeed on the root fs.
CoreSucceeds(command, controller, complete) ==
  IF command = "list-controllers" THEN fs.readable
  ELSE /\ IF controller # NoName THEN Opens(DevPath(controller))
          ELSE fs.readable /\ \E i \in 1..Len(Yielded) : Opens(Yielded[i])
       /\ command \in {"up", "down", "set"} => complete

\* C8: the exit status is 0 exactly when no core step failed and 1 otherwise;
\* a notification is attempted exactly after a complete write of up, down or
\* set, and whether it could be shown does not change the exit status.
C8_ExitStatus ==
  [][run'.count > run.count =>
       LET complete == run'.out.bytes = to_string(run'.out.raw)
           writes   == run'.command \in {"up", "down", "set"}
       IN  /\ run'.exit \in {0, 1}
           /\ run'.exit = 0 <=> CoreSucceeds(run'.command, run'.controller,
                                              run'.n >= Len(to_string(run'.out.raw)))
           /\ run'.out.notif.shown # "none" <=> (writes /\ run'.exit = 0)
           /\ run'.out.notif.shown # "none" => complete
           /\ run'.exit # 0 => run'.out.err # NoErr]_vars

C8_Witness ==
  /\ run.command = "set" /\ run.exit = 0
  /\ run.out.notif.shown = "failed"

\* The end-to-end scenario: the controller opened has max 255 and brightness 128.
Scenario == run.out.opened.live /\ run.out.opened.max = 255 /\ run.out.opened.value = 128

\* The raw target of a command, in hundredths: current + delta, current - delta
\* or the value itself, as a share of max.
Target100(command, value, opened) ==
  CASE command = "up"   -> opened.value * 100 + value * opened.max
    [] command = "down" -> opened.value * 100 - value * opened.max
    [] command = "set"  -> value * opened.max

\* C9 as stated: in the scenario `up 10` writes raw 153 and get_percentage()
\* then reports 60.
C9_Up10Writes153 ==
  (Scenario /\ run.command = "up" /\ run.value = 10 /\ run.exit = 0) =>
    /\ run.out.bytes = <<"1", "5", "3">>
    /\ get_percentage(run.out.ctl) = F64FromU64(60)

\* C9: up, down and set write the raw value nearest to current + delta,
\* current - delta and v (clamped); in the scenario `get` prints 50, `up 10`
\* writes 154, the rounding of 153.5, after which get_percentage() is
\* 154 / 255 * 100, shown as 60, while `set 60` writes 153 and `down 10` 103.
C9_Resolution ==
  /\ (run.command \in {"up", "down", "set"} /\ run.out.opened.live
        /\ run.out.opened.max >= 1) =>
       Abs(run.out.raw * 100
           - ClampInt(Target100(run.command, run.value, run.out.opened),
                      0, run.out.opened.max * 100)) <= 50
  /\ (Scenario /\ run.command = "get") => run.out.stdout = << <<"5", "0">> >>
  /\ (Scenario /\ run.command = "up" /\ run.value = 10) =>
       /\ run.out.raw = 154
       /\ run.out.ctl.value = 154
       /\ run.out.bytes = SubSeq(<<"1", "5", "4">>, 1, Len(run.out.bytes))
       /\ run.exit = 0 =>
            /\ run.out.bytes = <<"1", "5", "4">>
            /\ run.out.notif.summary = <<"6", "0", "%">>
            /\ run.out.notif.hint = 60
            /\ get_percentage(run.out.ctl)
                 = F64Mul(F64Div(F64FromU64(154), F64FromU64(255)), F64FromU64(100))
  /\ (Scenario /\ run.command = "up" /\ run.value = 0) => run.out.raw = 128
  /\ (Scenario /\ run.command = "down" /\ run.value = 10) => run.out.raw = 103
  /\ (Scenario /\ run.command = "set" /\ run.value = 60) => run.out.raw = 153

C9_Witness ==
  /\ Scenario /\ run.command = "up" /\ run.value = 10 /\ run.exit = 0
  /\ run.out.bytes = <<"1", "5", "4">>

\* C10: on a Controller with max >= 1, once set_percentage has been called, a
\* set_percentage(get_percentage()) computes, caches and writes the value
\* already cached; and after set_percentage(p) the percentage reported is
\* within 100 / max of p clamped to 0..100.
C10_RoundTripStable ==
  [][/\ (last'.op = "round_trip" /\ last.op \in {"set_percentage", "round_trip"}
           /\ ctl.max >= 1) =>
          /\ last'.raw = ctl.value
          /\ ctl'.value = ctl.value
          /\ last'.ok => last'.bytes = to_string(ctl.value)
     /\ (last'.op = "set_percentage" /\ ctl'.max >= 1) =>
          /\ get_percentage(ctl').k = "num"
          /\ Within(get_percentage(ctl'), ClampInt(last'.target, 0, 100), 100, ctl'.max)
    ]_vars

C10_Witness ==
  /\ last.op = "round_trip" /\ last.ok /\ last.calls = 2
  /\ last.raw = 148 /\ ctl.value = 148 /\ ctl.max = 255
====
